---- MODULE Spec2Model ----
(***************************************************************************)
(* A model of braingeneers.drylab.Organoid: construction, reset(), the     *)
(* derivative function VUAdot() and step().                                *)
(*                                                                         *)
(* Numbers.  The program computes in float32 arrays.  Here every real      *)
(* quantity x is the integer x*Scale (fixed point); a product or quotient  *)
(* of two quantities is rounded down to that grid, which stands for the    *)
(* rounding of the floating-point operation.  Sums, differences, products  *)
(* by an integer count and comparisons are exact.  NaN and infinities are  *)
(* not represented: every parameter set below keeps C and tau positive.    *)
(*                                                                         *)
(* Arrays.  A length-n vector is a sequence of length n; a matrix is a     *)
(* sequence of rows.  numpy broadcasting of a length-1 vector is modelled  *)
(* where construction and reset() can meet it.                             *)
(***************************************************************************)
EXTENDS Integers, Sequences, FiniteSets, TLC

\* Number of cells of a well-formed population (self.N).
N == 2
\* Number of calls (step or reset) explored after construction.
MaxCalls == 3
\* Largest number of channel openings drawn for one cell in one step.
MaxNoise == 1
\* Number of grid coordinates of the medium along each axis.
GridLen == 3
\* Number of calls that change the population or the charge of a medium
\* (org.step, org.reset, medium.step) explored next to a medium.
MaxChanges == 3
\* Number of steps of the two-cell scenario that are counted.
Horizon == 60
MaxEvents == 3
MaxTicks == 5
MaxCreates == 3
\* Fixed-point resolution: the real number 1.0 is the integer Scale.
Scale == 10

Cells == 1..N

----------------------------------------------------------------------------
(* Arithmetic on fixed-point quantities.                                   *)

Mul(x, y) == (x * y) \div Scale
Div(x, y) == (x * Scale) \div y

RECURSIVE SumTo(_, _)
SumTo(f, n) == IF n = 0 THEN 0 ELSE f[n] + SumTo(f, n - 1)

\* Matrix-vector product M @ v (one fixed-point product per term).
MatVec(M, v) ==
  [i \in 1..Len(M) |-> SumTo([j \in 1..Len(v) |-> Mul(M[i][j], v[j])], Len(v))]

Zeros(n) == [i \in 1..n |-> 0]

\* Element i of a vector that numpy may broadcast from length 1.
Bc(vec, i) == IF Len(vec) = 1 THEN vec[1] ELSE vec[i]

\* Two 1-d shapes that numpy can broadcast together.
Broadcastable(m, n) == m = n \/ m = 1 \/ n = 1

----------------------------------------------------------------------------
(* Inputs of the constructor.                                              *)

ParamNames == {"a", "b", "c", "d", "C", "k", "Vr", "Vt", "Vp", "Vn", "tau"}

\* Per-cell parameter sets, in fixed-point units.  "E" releases an
\* excitatory transmitter (Vn > Vt), "I" an inhibitory one (Vn <= Vt), and
\* "H" rests above its peak (Vr > Vp).
KindParams(kind) ==
  CASE kind = "E" ->
         [a |-> 1, b |-> 2 * Scale, c |-> -5 * Scale, d |-> Scale,
          C |-> Scale, k |-> Scale, Vr |-> -6 * Scale, Vt |-> -4 * Scale,
          Vp |-> 3 * Scale, Vn |-> 0, tau |-> 2 * Scale]
    [] kind = "I" ->
         [a |-> 2, b |-> Scale, c |-> -5 * Scale, d |-> 2 * Scale,
          C |-> 2 * Scale, k |-> Scale \div 2, Vr |-> -6 * Scale,
          Vt |-> -4 * Scale, Vp |-> 2 * Scale, Vn |-> -7 * Scale,
          tau |-> Scale]
    [] kind = "H" ->
         [a |-> 1, b |-> 2 * Scale, c |-> -5 * Scale, d |-> Scale,
          C |-> Scale, k |-> Scale, Vr |-> 4 * Scale, Vt |-> -4 * Scale,
          Vp |-> 3 * Scale, Vn |-> 0, tau |-> 2 * Scale]

\* Which kind each cell is, by layout.
KindOf(layout, i) ==
  CASE layout = "EE" -> "E"
    [] layout = "EI" -> IF i = 1 THEN "E" ELSE "I"
    [] layout = "II" -> "I"
    [] layout = "HE" -> IF i = 1 THEN "H" ELSE "E"

\* Initial conductances G[i][j] (from cell j onto cell i), all >= 0.
GEntry(gname, i, j) ==
  CASE gname = "none" -> 0
    [] gname = "feed" -> IF j = 1 /\ i # 1 THEN Scale \div 2 ELSE 0
    [] gname = "weak" -> IF j = 1 /\ i # 1 THEN Scale \div 10 ELSE 0
    [] gname = "all"  -> IF i = j THEN 0 ELSE 2 * Scale

\* The per-cell vector of parameter `name`, of length len.
ParamVector(layout, name, len) ==
  [i \in 1..len |-> KindParams(KindOf(layout, IF i \in Cells THEN i ELSE 1))[name]]

\* One call of the constructor: a layout of cell kinds, an initial G, the
\* plasticity switch, the noise rate, and (fault) at most one argument whose
\* shape disagrees with the others: a parameter vector of length fault.len,
\* or a G with fault.len columns.
Preparations ==
  {<<"EI", "feed">>, <<"EI", "all">>, <<"EE", "none">>, <<"HE", "feed">>,
   <<"II", "all">>}

GoodConfigs ==
  {[layout |-> lg[1], g |-> lg[2], stdp |-> stdp, rate |-> 0,
    fault |-> [name |-> "none", len |-> N]] :
     lg \in Preparations, stdp \in BOOLEAN}

NoisyConfigs ==
  [layout : {"EI"}, g : {"feed"}, stdp : {TRUE}, rate : {Scale},
   fault : {[name |-> "none", len |-> N]}]

FaultyConfigs ==
  [layout : {"EI"}, g : {"feed"}, stdp : {FALSE}, rate : {0},
   fault : [name : ParamNames \cup {"G"}, len : {1, N + 1}]]

Configs == GoodConfigs \cup NoisyConfigs \cup FaultyConfigs

LenOf(cfg, name) == IF cfg.fault.name = name THEN cfg.fault.len ELSE N

----------------------------------------------------------------------------
(* The population object.                                                  *)

\* The attributes Isyn and Idyn do not exist before the first VUAdot().
Unset == << >>

NoOrganoid ==
  [V |-> << >>, U |-> << >>, A |-> << >>, Adot |-> << >>, G |-> << >>,
   traces |-> << >>, fired |-> << >>, Isyn |-> Unset, Idyn |-> Unset]

\* reset() that zeroes VUA[1:3] only and so keeps Adot.
ResetKeepsAdot(p, s) ==
  LET V == [i \in 1..p.N |-> Bc(p.Vr, i)]
  IN  [s EXCEPT !.V = V,
                !.fired = [i \in 1..p.N |-> V[i] >= Bc(p.Vp, i)],
                !.U = Zeros(p.N),
                !.A = Zeros(p.N)]

\* Organoid.reset(): V = Vr, fired = (V >= Vp), U = A = Adot = 0.
Reset(p, s) ==
  LET V == [i \in 1..p.N |-> Bc(p.Vr, i)]
  IN  [s EXCEPT !.V = V,
                !.fired = [i \in 1..p.N |-> V[i] >= Bc(p.Vp, i)],
                !.U = Zeros(p.N),
                !.A = Zeros(p.N),
                !.Adot = Zeros(p.N)]

\* What reset() needs of the shapes: VUA[0,:] = Vr assigns a length-N row,
\* and V >= Vp compares a length-N vector with Vp.
ResetRaises(p) ==
  \/ ~(Len(p.Vr) = p.N \/ Len(p.Vr) = 1)
  \/ ~Broadcastable(p.N, Len(p.Vp))

\* Organoid.__init__: stores its arguments as given, takes N from the number
\* of rows of G, zeroes VUA and the traces, and calls reset().  The result is
\* the parameters, the object, and whether the constructor raised.
Construct(cfg) ==
  LET G == [i \in Cells |->
              [j \in 1..LenOf(cfg, "G") |->
                 GEntry(cfg.g, i, IF j \in Cells THEN j ELSE 1)]]
      vec(name) == ParamVector(cfg.layout, name, LenOf(cfg, name))
      p == [N |-> Len(G),
            a |-> vec("a"), b |-> vec("b"), c |-> vec("c"), d |-> vec("d"),
            C |-> vec("C"), k |-> vec("k"), Vr |-> vec("Vr"),
            Vt |-> vec("Vt"), Vp |-> vec("Vp"), Vn |-> vec("Vn"),
            tau |-> vec("tau"),
            noise_event_rate |-> cfg.rate,
            noise_event_size |-> Scale \div 5,
            do_stdp |-> cfg.stdp,
            tau_stdp |-> IF "taus" \in DOMAIN cfg THEN cfg.taus
                         ELSE <<2 * Scale, 4 * Scale, 5 * Scale>>,
            Aplus |-> Scale \div 2,
            Aminus |-> Scale,
            Ascaling |-> IF "scaling" \in DOMAIN cfg THEN cfg.scaling
                         ELSE Scale]
      blank == [V |-> Zeros(p.N), U |-> Zeros(p.N), A |-> Zeros(p.N),
                Adot |-> Zeros(p.N), G |-> G,
                traces |-> <<Zeros(p.N), Zeros(p.N), Zeros(p.N)>>,
                fired |-> << >>, Isyn |-> Unset, Idyn |-> Unset]
  IN  IF ResetRaises(p)
        THEN [raised |-> TRUE, p |-> p, org |-> NoOrganoid]
        ELSE [raised |-> FALSE, p |-> p, org |-> Reset(p, blank)]

\* Every per-cell vector has length N and G is N x N.
Consistent(p, s) ==
  /\ \A name \in ParamNames : Len(p[name]) = p.N
  /\ Len(s.G) = p.N
  /\ \A i \in 1..Len(s.G) : Len(s.G[i]) = p.N

----------------------------------------------------------------------------
(* The numeric backends.  backend_numpy always exists.  backend_torch is   *)
(* defined when the module is imported, by what "import torch" finds.      *)

\* torch cannot be imported; torch without CUDA; torch with CUDA.
TorchEnvs == {"missing", "cpu", "cuda"}

Backends == {"numpy", "torch"}

\* The attribute lookup backend.array, the first use the constructor makes
\* of its backend (self.G = backend.array(G)).  Without torch, backend_torch
\* is an object whose __getattr__ raises the ImportError of the import.
BackendArray(t, b) ==
  CASE b = "numpy" -> "np.asarray"
    [] b = "torch" /\ t = "missing" -> "ImportError"
    [] b = "torch" /\ t = "cpu" -> "torch.FloatTensor"
    [] b = "torch" /\ t = "cuda" -> "torch.cuda.FloatTensor"

----------------------------------------------------------------------------
(* ChargedMedium: a grid of charge density rho around an immersed          *)
(* population.  rho[x][y] is the density at (X[x], Y[y]); indices start at *)
(* 1 here and at 0 in the program.                                         *)

\* Floor of the square root of a natural number.
ISqrt(n) == CHOOSE r \in 0..n : r * r <= n /\ (r + 1) * (r + 1) > n

\* np.sqrt of a fixed-point quantity.
Sqrt(x) == ISqrt(x * Scale)

\* np.linalg.norm of the difference vector (ax, ay).
Norm2(ax, ay) == ISqrt(ax * ax + ay * ay)

Abs(x) == IF x < 0 THEN -x ELSE x

\* The grids the caller passes: GridLen points per axis, 2.0 apart in X and
\* 1.0 apart in Y.
Xgrid == [k \in 1..GridLen |-> 2 * Scale * (k - 1)]
Ygrid == [k \in 1..GridLen |-> Scale * (k - 1)]

\* The population of a medium that was never immersed.
None == "None"

\* The argument points=None of probe(): no points are passed.
NoPoints == << >>

Pi == (31416 * Scale) \div 10000
Eps0 == (8854187 * Scale) \div 1000000

\* ChargedMedium(Xgrid, Ygrid, D, eps_rel).  org, Vprev, _neuron_grid,
\* _points, _r and _d are not assigned by the constructor.
NewMedium(D, eps_rel) ==
  LET dx == Xgrid[2] - Xgrid[1]
      dy == Ygrid[2] - Ygrid[1]
  IN  [D |-> D, X |-> Xgrid, Y |-> Ygrid, dx |-> dx, dy |-> dy,
       rho |-> [x \in 1..Len(Xgrid) |-> [y \in 1..Len(Ygrid) |-> 0]],
       sigma |-> <<Div(Sqrt(2 * D), dx), Div(Sqrt(2 * D), dy)>>,
       eps_factor |-> Mul(Mul(4 * Pi, eps_rel), Eps0),
       org |-> None, Vprev |-> Unset, neuron_grid |-> Unset,
       points |-> Unset, r |-> Unset, d |-> Unset]

\* np.argmin(abs(x - grid)): the first index of the nearest grid coordinate.
ArgMinAbs(x, grid) ==
  CHOOSE k \in 1..Len(grid) :
    /\ \A j \in 1..Len(grid) : Abs(x - grid[k]) <= Abs(x - grid[j])
    /\ \A j \in 1..(k - 1) : Abs(x - grid[j]) > Abs(x - grid[k])

\* immerse() that also clears the charge of the medium.
ImmerseClearsRho(m, who, V, xy) ==
  [m EXCEPT !.org = who,
            !.Vprev = V,
            !.rho = [x \in 1..Len(m.X) |-> [y \in 1..Len(m.Y) |-> 0]],
            !.neuron_grid =
               <<[i \in 1..Len(xy[1]) |-> ArgMinAbs(xy[1][i], m.X)],
                 [i \in 1..Len(xy[2]) |-> ArgMinAbs(xy[2][i], m.Y)]>>]

\* medium.immerse(organoid): binds the population `who` with voltages V and
\* coordinates xy, copies V, and quantizes every cell to a grid point.
Immerse(m, who, V, xy) ==
  [m EXCEPT !.org = who,
            !.Vprev = V,
            !.neuron_grid =
               <<[i \in 1..Len(xy[1]) |-> ArgMinAbs(xy[1][i], m.X)],
                 [i \in 1..Len(xy[2]) |-> ArgMinAbs(xy[2][i], m.Y)]>>]

\* charge = org.C * (Vprev - org.V) / (dx * dy).
Charge(p, m, V) ==
  [i \in 1..Len(V) |-> Div(Mul(p.C[i], m.Vprev[i] - V[i]), Mul(m.dx, m.dy))]

\* A scatter in which the last cell quantized to a grid point wins.
ScatterLastWins(rho, charge, ng) ==
  [x \in 1..Len(rho) |->
     [y \in 1..Len(rho[x]) |->
        LET here == {i \in 1..Len(charge) : ng[1][i] = x /\ ng[2][i] = y}
        IN  IF here = {} THEN rho[x][y]
            ELSE rho[x][y]
                   + charge[CHOOSE i \in here : \A j \in here : j <= i]]]

\* rho += coo_matrix((charge, _neuron_grid)): every cell's charge is added
\* at its grid point, and cells on the same grid point add up.
ScatterAdd(rho, charge, ng) ==
  [x \in 1..Len(rho) |->
     [y \in 1..Len(rho[x]) |->
        rho[x][y]
          + SumTo([i \in 1..Len(charge) |->
                     IF ng[1][i] = x /\ ng[2][i] = y THEN charge[i] ELSE 0],
                  Len(charge))]]

\* exp(-t) for t >= 0, to second order: 1 / (1 + t + t^2/2).
ExpNeg(t) == Div(Scale, Scale + t + Mul(t, t) \div 2)

\* The Gaussian kernel of ndimage.gaussian_filter1d: radius int(4*sd + 0.5),
\* weights exp(-x^2 / (2 sd^2)), normalized by their sum.
KernelRadius(sd) == (4 * sd + Scale \div 2) \div Scale
KernelWeight(x, sd) == ExpNeg((x * x * Scale * Scale * Scale) \div (2 * sd * sd))
KernelSum(sd) ==
  KernelWeight(0, sd)
    + 2 * SumTo([x \in 1..KernelRadius(sd) |-> KernelWeight(x, sd)],
                KernelRadius(sd))

\* One axis of the filter, mode='constant': the line is padded with zeros.
\* An axis whose sigma is (numerically) zero is skipped.
Filter1d(line, sd) ==
  IF sd = 0 THEN line
  ELSE [i \in 1..Len(line) |->
          SumTo([j \in 1..Len(line) |->
                   IF Abs(i - j) <= KernelRadius(sd)
                     THEN KernelWeight(Abs(i - j), sd) * line[j]
                     ELSE 0],
                Len(line)) \div KernelSum(sd)]

\* ndimage.gaussian_filter(rho, mode='constant', sigma): axis 0, then axis 1.
GaussianFilter(rho, sigma) ==
  LET nx == Len(rho)
      ny == Len(rho[1])
      along0 == [y \in 1..ny |-> Filter1d([x \in 1..nx |-> rho[x][y]], sigma[1])]
      mid == [x \in 1..nx |-> [y \in 1..ny |-> along0[y][x]]]
  IN  [x \in 1..nx |-> Filter1d(mid[x], sigma[2])]

\* A step of the medium that keeps the voltages it was given before.
MediumStepKeepsVprev(p, m, V, dt) ==
  LET charge == Charge(p, m, V)
      scattered == ScatterAdd(m.rho, charge, m.neuron_grid)
      sigma == <<Mul(m.sigma[1], Sqrt(dt)), Mul(m.sigma[2], Sqrt(dt))>>
  IN  [scattered |-> scattered,
       med |-> [m EXCEPT !.rho = GaussianFilter(scattered, sigma)]]

\* medium.step(dt) of a medium bound to a population with parameters p and
\* voltages V: the charge is scattered, rho diffuses, and V is copied.
MediumStep(p, m, V, dt) ==
  LET charge == Charge(p, m, V)
      scattered == ScatterAdd(m.rho, charge, m.neuron_grid)
      sigma == <<Mul(m.sigma[1], Sqrt(dt)), Mul(m.sigma[2], Sqrt(dt))>>
  IN  [scattered |-> scattered,
       med |-> [m EXCEPT !.rho = GaussianFilter(scattered, sigma),
                         !.Vprev = V]]

\* Distance from each probe point to each grid point (self._r).
GridDistances(m, points) ==
  [q \in 1..Len(points) |->
     [x \in 1..Len(m.X) |->
        [y \in 1..Len(m.Y) |->
           Norm2(points[q][1] - m.X[x], points[q][2] - m.Y[y])]]]

\* Distance from each probe point to each cell at xy (self._d).
CellDistances(points, xy) ==
  [q \in 1..Len(points) |->
     [i \in 1..Len(xy[1]) |->
        Norm2(points[q][1] - xy[1][i], points[q][2] - xy[2][i])]]

\* medium.probe_at(points).  xy is the XY of the bound population; on a
\* medium that was never immersed the lookup of self.org raises after
\* _points and _r have been assigned.
ProbeAt(m, points, xy) ==
  IF m.org = None
    THEN [error |-> "AttributeError",
          med |-> [m EXCEPT !.points = points,
                            !.r = GridDistances(m, points)]]
    ELSE [error |-> "none",
          med |-> [m EXCEPT !.points = points,
                            !.r = GridDistances(m, points),
                            !.d = CellDistances(points, xy)]]

\* np.trapz(f, grid).
Trapz(f, grid) ==
  SumTo([k \in 1..(Len(grid) - 1) |->
           Mul(grid[k + 1] - grid[k], f[k] + f[k + 1]) \div 2],
        Len(grid) - 1)

\* The potentials probe() computes from distances r and d: the integral of
\* rho / r over the grid plus the charge held by the cells, over eps_factor.
Potentials(p, m, V, r, d) ==
  [q \in 1..Len(r) |->
     LET dist ==
           Trapz([x \in 1..Len(m.X) |->
                    Trapz([y \in 1..Len(m.Y) |-> Div(m.rho[x][y], r[q][x][y])],
                          m.Y)],
                 m.X)
         cells ==
           SumTo([i \in 1..Len(V) |->
                    Mul(Mul(p.C[i], Div(Scale, d[q][i])), V[i] - p.Vr[i])],
                 Len(V))
     IN  Div(dist + cells, m.eps_factor)]

\* medium.probe(points).  The test "points not in (None, self._points)"
\* first reads self._points, and for an array compares it with None
\* elementwise, whose truth value is ambiguous.
Probe(p, m, V, points) ==
  CASE m.points = Unset ->
         [error |-> "AttributeError", ret |-> Unset]
    [] m.points # Unset /\ points # NoPoints ->
         [error |-> "ValueError", ret |-> Unset]
    [] m.points # Unset /\ points = NoPoints /\ m.d = Unset ->
         [error |-> "AttributeError", ret |-> Unset]
    [] OTHER ->
         [error |-> "none", ret |-> Potentials(p, m, V, m.r, m.d)]

----------------------------------------------------------------------------
(* Organoid.VUAdot(Iin): the derivative of [V, U, A, Adot] at state s, with *)
(* the currents it caches in self.Isyn and self.Idyn.                      *)

IsynAt(p, s) ==
  LET drive == MatVec(s.G, [j \in Cells |-> Mul(s.A[j], p.Vn[j])])
      gsum  == MatVec(s.G, s.A)
  IN  [i \in Cells |-> drive[i] - Mul(gsum[i], s.V[i])]

\* The sodium current with the threshold in both factors.
NAcurrentThresholdTwice(p, s) ==
  [i \in Cells |-> Mul(Mul(p.k[i], s.V[i] - p.Vt[i]), s.V[i] - p.Vt[i])]

NAcurrent(p, s) ==
  [i \in Cells |-> Mul(Mul(p.k[i], s.V[i] - p.Vr[i]), s.V[i] - p.Vt[i])]

IdynAt(p, s, Iin) ==
  [i \in Cells |-> NAcurrent(p, s)[i] - s.U[i] + Iin[i]]

VUAdot(p, s, Iin) ==
  LET Isyn == IsynAt(p, s)
      Idyn == IdynAt(p, s, Iin)
  IN  [Isyn |-> Isyn,
       Idyn |-> Idyn,
       Vdot |-> [i \in Cells |-> Div(Idyn[i] + Isyn[i], p.C[i])],
       Udot |-> [i \in Cells |->
                   Mul(p.a[i], Mul(p.b[i], s.V[i] - p.Vr[i]) - s.U[i])],
       Adot |-> [i \in Cells |-> Div(s.Adot[i], p.tau[i])],
       Addot |-> [i \in Cells |-> Div(-(s.A[i] + 2 * s.Adot[i]), p.tau[i])]]

\* Idyn = NAcurrent - U + Iin raises unless Iin broadcasts against length N.
VUAdotRaises(p, Iin) == ~Broadcastable(p.N, Len(Iin))

----------------------------------------------------------------------------
(* The stages of Organoid.step(dt, Iin), in the order of the code.         *)

AnyFired(s) == \E i \in Cells : s.fired[i]

\* The deferred reset sending V to the resting potential instead of c.
DeferredResetToRest(p, s) ==
  [s EXCEPT !.V = [i \in Cells |-> IF s.fired[i] THEN p.Vr[i] ELSE s.V[i]],
            !.U = [i \in Cells |->
                     IF s.fired[i] THEN s.U[i] + p.d[i] ELSE s.U[i]],
            !.Adot = [i \in Cells |->
                        IF s.fired[i] THEN s.Adot[i] + Scale ELSE s.Adot[i]]]

\* The deferred reset without the release of transmitter (Adot untouched).
DeferredResetNoRelease(p, s) ==
  [s EXCEPT !.V = [i \in Cells |-> IF s.fired[i] THEN p.c[i] ELSE s.V[i]],
            !.U = [i \in Cells |->
                     IF s.fired[i] THEN s.U[i] + p.d[i] ELSE s.U[i]]]

\* Lines 186-188: the reset of the cells marked fired by the previous call.
DeferredReset(p, s) ==
  [s EXCEPT !.V = [i \in Cells |-> IF s.fired[i] THEN p.c[i] ELSE s.V[i]],
            !.U = [i \in Cells |->
                     IF s.fired[i] THEN s.U[i] + p.d[i] ELSE s.U[i]],
            !.Adot = [i \in Cells |->
                        IF s.fired[i] THEN s.Adot[i] + Scale ELSE s.Adot[i]]]

\* A noise source that produces events whatever the rate.
NoiseDrawsIgnoringRate(lam) ==
  {Zeros(N), [i \in Cells |-> IF i < MaxNoise THEN i ELSE MaxNoise]}

\* The vectors np.random.poisson(lam, size=N) is taken to return: all zero
\* when lam = 0; otherwise no event at all, or events in every cell, i of
\* them in cell i up to MaxNoise.
NoiseDraws(lam) ==
  IF lam = 0
    THEN {Zeros(N)}
    ELSE {Zeros(N), [i \in Cells |-> IF i < MaxNoise THEN i ELSE MaxNoise]}

\* Lines 192-194: channel noise, num_noise_events = n.
ChannelNoise(p, s, n) ==
  [s EXCEPT !.Adot = [i \in Cells |-> s.Adot[i] + p.noise_event_size * n[i]]]

\* The weight update with the presynaptic depression applied to the rows of
\* the fired cells (G[fired,:]) instead of their columns.
StdpUnclippedRowsDepressed(p, s, dt) ==
  LET pre == [i \in Cells |-> [j \in Cells |->
                IF s.fired[i]
                  THEN s.G[i][j] - Mul(p.Aminus, s.traces[2][i])
                  ELSE s.G[i][j]]]
      post == [i \in Cells |-> [j \in Cells |->
                IF s.fired[i]
                  THEN pre[i][j]
                         + Mul(p.Aplus, Mul(s.traces[1][j], s.traces[3][i]))
                  ELSE pre[i][j]]]
  IN  [i \in Cells |-> [j \in Cells |->
        IF p.Vn[j] > p.Vt[j]
          THEN post[i][j]
                 - Mul(Mul(s.traces[3][i] - Scale \div 2, dt), p.Ascaling)
          ELSE post[i][j]]]

\* The weight update with the scaling term applied to every column.
StdpUnclippedScalesAll(p, s, dt) ==
  LET pre == [i \in Cells |-> [j \in Cells |->
                IF s.fired[j]
                  THEN s.G[i][j] - Mul(p.Aminus, s.traces[2][j])
                  ELSE s.G[i][j]]]
      post == [i \in Cells |-> [j \in Cells |->
                IF s.fired[i]
                  THEN pre[i][j]
                         + Mul(p.Aplus, Mul(s.traces[1][j], s.traces[3][i]))
                  ELSE pre[i][j]]]
  IN  [i \in Cells |-> [j \in Cells |->
        post[i][j]
          - Mul(Mul(s.traces[3][i] - Scale \div 2, dt), p.Ascaling)]]

\* Lines 198-213: G after the presynaptic, postsynaptic and scaling updates,
\* before clipping.  traces[1], [2], [3] are the rows 0, 1, 2 of the code.
StdpUnclipped(p, s, dt) ==
  LET pre == [i \in Cells |-> [j \in Cells |->
                IF s.fired[j]
                  THEN s.G[i][j] - Mul(p.Aminus, s.traces[2][j])
                  ELSE s.G[i][j]]]
      post == [i \in Cells |-> [j \in Cells |->
                IF s.fired[i]
                  THEN pre[i][j]
                         + Mul(p.Aplus, Mul(s.traces[1][j], s.traces[3][i]))
                  ELSE pre[i][j]]]
  IN  [i \in Cells |-> [j \in Cells |->
        IF p.Vn[j] > p.Vt[j]
          THEN post[i][j]
                 - Mul(Mul(s.traces[3][i] - Scale \div 2, dt), p.Ascaling)
          ELSE post[i][j]]]

\* np.clip(G, 0, None) without out=G: the clipped copy is dropped.
ClipGDropped(G) == G

\* Line 216: np.clip(G, 0, None, out=G).
ClipG(G) ==
  [i \in 1..Len(G) |-> [j \in 1..Len(G[i]) |->
     IF G[i][j] < 0 THEN 0 ELSE G[i][j]]]

\* Line 220: traces[:, fired] += 1.
BumpTraces(s) ==
  [r \in 1..3 |-> [i \in Cells |->
     IF s.fired[i] THEN s.traces[r][i] + Scale ELSE s.traces[r][i]]]

\* A decay at twice the rate: traces *= 1 - 2 * dt / tau_stdp.
DecayTracesTwiceAsFast(p, traces, dt) ==
  [r \in 1..3 |-> [i \in Cells |->
     Mul(traces[r][i], Scale - 2 * Div(dt, p.tau_stdp[r]))]]

\* Line 223: traces *= 1 - dt / tau_stdp.
DecayTraces(p, traces, dt) ==
  [r \in 1..3 |-> [i \in Cells |->
     Mul(traces[r][i], Scale - Div(dt, p.tau_stdp[r]))]]

\* The plasticity block with the decay of the traces inside the branch of
\* the steps that have a cell marked fired.
PlasticityDecayOnSpike(p, s, dt) ==
  IF ~p.do_stdp
    THEN s
    ELSE IF AnyFired(s)
      THEN [s EXCEPT !.G = ClipG(StdpUnclipped(p, s, dt)),
                     !.traces = DecayTraces(p, BumpTraces(s), dt)]
      ELSE s

\* The plasticity block without the do_stdp test.
PlasticityUngated(p, s, dt) ==
  IF AnyFired(s)
    THEN [s EXCEPT !.G = ClipG(StdpUnclipped(p, s, dt)),
                   !.traces = DecayTraces(p, BumpTraces(s), dt)]
    ELSE [s EXCEPT !.traces = DecayTraces(p, s.traces, dt)]

\* Lines 196-223: the plasticity block.
Plasticity(p, s, dt) ==
  IF ~p.do_stdp
    THEN s
    ELSE IF AnyFired(s)
      THEN [s EXCEPT !.G = ClipG(StdpUnclipped(p, s, dt)),
                     !.traces = DecayTraces(p, BumpTraces(s), dt)]
      ELSE [s EXCEPT !.traces = DecayTraces(p, s.traces, dt)]

\* Lines 229-230: k1 = VUAdot(Iin); VUA += k1 * dt/2.
HalfStep(p, s, dt, Iin) ==
  LET k1 == VUAdot(p, s, Iin)
      h(x) == Mul(x, dt) \div 2
  IN  [s EXCEPT !.Isyn = k1.Isyn,
                !.Idyn = k1.Idyn,
                !.V = [i \in Cells |-> s.V[i] + h(k1.Vdot[i])],
                !.U = [i \in Cells |-> s.U[i] + h(k1.Udot[i])],
                !.A = [i \in Cells |-> s.A[i] + h(k1.Adot[i])],
                !.Adot = [i \in Cells |-> s.Adot[i] + h(k1.Addot[i])]]

\* The second stage without the removal of the half step: VUA += k2*dt.
FullStepKeepsHalf(p, s, m, dt, Iin) ==
  LET k2 == VUAdot(p, m, Iin)
  IN  [m EXCEPT !.Isyn = k2.Isyn,
                !.Idyn = k2.Idyn,
                !.V = [i \in Cells |-> m.V[i] + Mul(k2.Vdot[i], dt)],
                !.U = [i \in Cells |-> m.U[i] + Mul(k2.Udot[i], dt)],
                !.A = [i \in Cells |-> m.A[i] + Mul(k2.Adot[i], dt)],
                !.Adot = [i \in Cells |-> m.Adot[i] + Mul(k2.Addot[i], dt)]]

\* Lines 231-232: k2 = VUAdot(Iin); VUA += k2*dt - k1*dt/2, where s is the
\* state the first evaluation read and m the half-advanced state.
FullStep(p, s, m, dt, Iin) ==
  LET k1 == VUAdot(p, s, Iin)
      k2 == VUAdot(p, m, Iin)
      h(x) == Mul(x, dt) \div 2
  IN  [m EXCEPT !.Isyn = k2.Isyn,
                !.Idyn = k2.Idyn,
                !.V = [i \in Cells |->
                         m.V[i] + (Mul(k2.Vdot[i], dt) - h(k1.Vdot[i]))],
                !.U = [i \in Cells |->
                         m.U[i] + (Mul(k2.Udot[i], dt) - h(k1.Udot[i]))],
                !.A = [i \in Cells |->
                         m.A[i] + (Mul(k2.Adot[i], dt) - h(k1.Adot[i]))],
                !.Adot = [i \in Cells |->
                            m.Adot[i] + (Mul(k2.Addot[i], dt) - h(k1.Addot[i]))]]

\* The correction applied to Isyn as well as to Idyn.
CorrectIdynAndIsyn(p, s) ==
  [s EXCEPT !.Idyn = [i \in Cells |->
              IF s.fired[i]
                THEN s.Idyn[i] + Mul(p.C[i], p.c[i] - p.Vp[i])
                ELSE s.Idyn[i]],
            !.Isyn = [i \in Cells |->
              IF s.fired[i]
                THEN s.Isyn[i] + Mul(p.C[i], p.c[i] - p.Vp[i])
                ELSE s.Isyn[i]]]

\* The Idyn correction applied to the cells at or above the peak now, that
\* is with fired recomputed before the correction.
CorrectIdynNewMask(p, s) ==
  [s EXCEPT !.Idyn = [i \in Cells |->
     IF s.V[i] >= p.Vp[i]
       THEN s.Idyn[i] + Mul(p.C[i], p.c[i] - p.Vp[i])
       ELSE s.Idyn[i]]]

\* Lines 238-239: Idyn[fired] += C[fired] * (c[fired] - Vp[fired]).
CorrectIdyn(p, s) ==
  [s EXCEPT !.Idyn = [i \in Cells |->
     IF s.fired[i]
       THEN s.Idyn[i] + Mul(p.C[i], p.c[i] - p.Vp[i])
       ELSE s.Idyn[i]]]

\* Spike detection that marks the cells and leaves V where it is.
DetectSpikesNoClamp(p, s) ==
  [s EXCEPT !.fired = [i \in Cells |-> s.V[i] >= p.Vp[i]]]

\* Lines 247-248: fired = V >= Vp; V[fired] = Vp[fired].
DetectSpikes(p, s) ==
  LET fired == [i \in Cells |-> s.V[i] >= p.Vp[i]]
  IN  [s EXCEPT !.fired = fired,
                !.V = [i \in Cells |-> IF fired[i] THEN p.Vp[i] ELSE s.V[i]]]

\* The state after each stage of one call step(dt, Iin) that draws the noise
\* vector n.  `last` is the state the call leaves: when the first VUAdot
\* raises, Isyn has been assigned and nothing after it has run.
StepStages(p, s, dt, Iin, n) ==
  LET s1 == DeferredReset(p, s)
      s2 == ChannelNoise(p, s1, n)
      s3 == Plasticity(p, s2, dt)
      raises == VUAdotRaises(p, Iin)
      s4 == IF raises THEN [s3 EXCEPT !.Isyn = IsynAt(p, s3)]
                      ELSE HalfStep(p, s3, dt, Iin)
      s5 == IF raises THEN s4 ELSE FullStep(p, s3, s4, dt, Iin)
      s6 == IF raises THEN s4 ELSE CorrectIdyn(p, s5)
      s7 == IF raises THEN s4 ELSE DetectSpikes(p, s6)
  IN  [raised |-> raises, evals |-> IF raises THEN 1 ELSE 2,
       reset |-> s1, noise |-> s2,
       unclipped |-> IF p.do_stdp /\ AnyFired(s2)
                       THEN StdpUnclipped(p, s2, dt) ELSE s2.G,
       stdp |-> s3, half |-> s4, full |-> s5, corrected |-> s6,
       last |-> s7]

NoStages ==
  [raised |-> FALSE, evals |-> 0, reset |-> NoOrganoid, noise |-> NoOrganoid,
   unclipped |-> << >>, stdp |-> NoOrganoid, half |-> NoOrganoid,
   full |-> NoOrganoid, corrected |-> NoOrganoid, last |-> NoOrganoid]

----------------------------------------------------------------------------
(* The state machine.                                                      *)

VARIABLES
  status,   \* "ready": the constructor returned an object; "raised": it raised
  params,   \* the arguments the object was constructed with
  org,      \* the object's mutable attributes
  twin,     \* a second population, constructed with the same arguments
  op,       \* the last call: its name and arguments, and whether it raised
  pre,      \* org as it was before the last call
  stages,   \* the state after each stage of the last call, when a step
  quiet,    \* every step since the last reset() had Iin = 0
  ncalls,   \* calls made since construction
  torch,    \* what "import torch" finds in this process
  backend,  \* the backend passed to the constructor
  array,    \* what the lookup of backend.array gave the constructor
  med,      \* the ChargedMedium object
  XY,       \* the coordinates of the cells of populations "A" and "B"
  mop,      \* the last call made on the medium, and its outcome
  msteps,   \* steps of the medium made since its construction
  scn,      \* the two-cell scenario: whether the current is applied, and
            \* what has been seen of the cells so far
  ret,      \* what the last direct call of VUAdot returned
  wrap,     \* the attributes an OrganoidWrapper adds, and its last call
  gen,      \* a _gen_frame_events generator
  sh,       \* the Shadows database and the clients that call it
  dts       \* the timesteps of the plastic population's steps so far

popvars == <<status, params, org, twin, op, pre, stages, quiet, ncalls>>
bevars == <<torch, backend, array>>
medvars == <<med, XY, mop, msteps>>

\* The variables outside the population object and its history.
env == <<bevars, medvars, scn, ret, wrap, gen, sh, dts>>

vars == <<popvars, env>>

\* The timesteps and input currents the caller passes.
DtVals == {Scale \div 2, Scale}

ZeroInput == Zeros(N)
DriveInput == [i \in Cells |-> IF i = 1 THEN 10 * Scale ELSE 0]
LongInput == Zeros(N + 1)

IinVals == {ZeroInput, DriveInput, LongInput}

InitFrom(cfgs) ==
  \E cfg \in cfgs :
    LET made == Construct(cfg)
    IN  /\ status = IF made.raised THEN "raised" ELSE "ready"
        /\ params = made.p
        /\ org = made.org
        /\ twin = made.org
        /\ op = [name |-> "init", dt |-> 0, Iin |-> << >>, n |-> << >>]
        /\ pre = NoOrganoid
        /\ stages = NoStages
        /\ quiet = TRUE
        /\ ncalls = 0

\* The record of a call on the medium: its name and argument, the error it
\* raised, what it returned, the voltages of the immersed population it
\* read, and for step() the medium before the call and rho after the
\* scatter.
NoCall ==
  [name |-> "none", arg |-> None, error |-> "none", ret |-> Unset,
   V |-> Unset, before |-> Unset, scattered |-> Unset]

\* No medium has been made.
NoMedium ==
  /\ med = Unset
  /\ XY = [A |-> Unset, B |-> Unset]
  /\ mop = NoCall
  /\ msteps = 0

\* No scenario is being run.
NoScenario ==
  scn = [drive |-> FALSE, since |-> 0, gap |-> 0, rel |-> 0,
         marked |-> FALSE, risen |-> FALSE, high |-> FALSE]

\* VUAdot has not been called from outside step().
NoReturn == ret = [value |-> Unset, view |-> FALSE, raised |-> FALSE]

\* The population is a plain Organoid, not an OrganoidWrapper.
NoWrapper == wrap = Unset

\* No population has been constructed.
NoPopulation ==
  /\ status = "unbuilt"
  /\ params = << >>
  /\ org = NoOrganoid
  /\ twin = NoOrganoid
  /\ op = [name |-> "none", dt |-> 0, Iin |-> << >>, n |-> << >>]
  /\ pre = NoOrganoid
  /\ stages = NoStages
  /\ quiet = TRUE
  /\ ncalls = 0

\* No frame generator has been made.
NoFrames == gen = Unset

\* No client of the Shadows database has been made.
NoShadows == sh = Unset

\* The timesteps of the steps are not being recorded.
NoTimesteps == dts = << >>

\* The populations below are built with the default backend, backend_numpy,
\* in a process where torch is not installed.
NumpyBackend ==
  /\ torch = "missing"
  /\ backend = "numpy"
  /\ array = "np.asarray"

Init ==
  /\ InitFrom(Configs) /\ NumpyBackend /\ NoMedium
  /\ NoScenario /\ NoReturn /\ NoWrapper /\ NoFrames /\ NoShadows
  /\ NoTimesteps

\* org.step(dt, Iin), on an object whose shapes agree.
Step(dt, Iin, n) ==
  /\ status = "ready"
  /\ Consistent(params, org)
  /\ ncalls < MaxCalls
  /\ n \in NoiseDraws(params.noise_event_rate * dt)
  /\ LET st == StepStages(params, org, dt, Iin, n)
     IN  /\ org' = st.last
         /\ stages' = st
  /\ pre' = org
  /\ op' = [name |-> "step", dt |-> dt, Iin |-> Iin, n |-> n]
  /\ quiet' = (quiet /\ Iin = ZeroInput)
  /\ ncalls' = ncalls + 1
  /\ UNCHANGED <<status, params, twin, env>>

\* org.reset().
DoReset ==
  /\ status = "ready"
  /\ ncalls < MaxCalls
  /\ org' = Reset(params, org)
  /\ pre' = org
  /\ op' = [name |-> "reset", dt |-> 0, Iin |-> << >>, n |-> << >>]
  /\ stages' = NoStages
  /\ quiet' = TRUE
  /\ ncalls' = ncalls + 1
  /\ UNCHANGED <<status, params, twin, env>>

Next ==
  \/ \E dt \in DtVals, Iin \in IinVals, n \in [Cells -> 0..MaxNoise] :
       Step(dt, Iin, n)
  \/ DoReset

Spec == Init /\ [][Next]_vars

\* Two populations constructed with the same arguments and given the same
\* calls; each draws its own channel noise.  They are followed for as long
\* as their states agree.
InitTwin ==
  /\ InitFrom(GoodConfigs \cup NoisyConfigs) /\ NumpyBackend /\ NoMedium
  /\ NoScenario /\ NoReturn /\ NoWrapper /\ NoFrames /\ NoShadows
  /\ NoTimesteps

TwinStep(dt, Iin, n, m) ==
  /\ status = "ready"
  /\ ncalls < MaxCalls
  /\ org = twin
  /\ n \in NoiseDraws(params.noise_event_rate * dt)
  /\ m \in NoiseDraws(params.noise_event_rate * dt)
  /\ LET st == StepStages(params, org, dt, Iin, n)
     IN  /\ org' = st.last
         /\ stages' = st
  /\ twin' = StepStages(params, twin, dt, Iin, m).last
  /\ pre' = org
  /\ op' = [name |-> "step", dt |-> dt, Iin |-> Iin, n |-> n]
  /\ quiet' = (quiet /\ Iin = ZeroInput)
  /\ ncalls' = ncalls + 1
  /\ UNCHANGED <<status, params, env>>

TwinReset ==
  /\ status = "ready"
  /\ ncalls < MaxCalls
  /\ org' = Reset(params, org)
  /\ twin' = Reset(params, twin)
  /\ pre' = org
  /\ op' = [name |-> "reset", dt |-> 0, Iin |-> << >>, n |-> << >>]
  /\ stages' = NoStages
  /\ quiet' = TRUE
  /\ ncalls' = ncalls + 1
  /\ UNCHANGED <<status, params, env>>

NextTwin ==
  \/ \E dt \in DtVals, Iin \in IinVals :
       \E n \in [Cells -> 0..MaxNoise], m \in [Cells -> 0..MaxNoise] :
         TwinStep(dt, Iin, n, m)
  \/ TwinReset

SpecTwin == InitTwin /\ [][NextTwin]_vars

----------------------------------------------------------------------------
(* A medium with two populations, "A" (org) and "B" (twin).  B was driven  *)
(* for one step before the medium was made and is left alone afterwards.   *)

\* Where the cells of a population lie (the constructor argument XY, as
\* <<xs, ys>>): "apart" has cell i next to grid point (i, i), "together" has
\* every cell next to grid point (2, 2), "outside" is "apart" with cell 1
\* beyond the last X coordinate, and "mirror" is "apart" seen from the other
\* corner.
Positions(layout) ==
  CASE layout = "apart" ->
         <<[i \in Cells |-> Xgrid[i] + 3], [i \in Cells |-> Ygrid[i] + 2]>>
    [] layout = "together" ->
         <<[i \in Cells |-> Xgrid[2] + i], [i \in Cells |-> Ygrid[2] - i]>>
    [] layout = "outside" ->
         <<[i \in Cells |-> IF i = 1 THEN Xgrid[GridLen] + 5 * Scale
                                     ELSE Xgrid[i] + 3],
           [i \in Cells |-> Ygrid[i] + 2]>>
    [] layout = "mirror" ->
         <<[i \in Cells |-> Xgrid[GridLen + 1 - i] - 3],
           [i \in Cells |-> Ygrid[GridLen + 1 - i] - 2]>>

\* The media explored: the layout of population A and the diffusion
\* constant D of the medium.
MediumConfigs ==
  {<<"apart", 2 * Scale>>, <<"together", 0>>, <<"outside", 0>>}

\* The timestep of the medium.
MedDtVals == {Scale}

\* Probe points, as a sequence of <<x, y>>; none is a grid point or a cell.
PointSets ==
  {<< <<Scale, Scale \div 2>> >>,
   << <<3 * Scale, (3 * Scale) \div 2>>, <<Scale, Scale \div 2>> >>}

\* A current into every cell.
DriveAll == [i \in Cells |-> 10 * Scale]

InitMedium ==
  \E mc \in MediumConfigs :
    LET layout == mc[1]
        D == mc[2]
        made == Construct([layout |-> "EI", g |-> "feed", stdp |-> FALSE,
                           rate |-> 0,
                           fault |-> [name |-> "none", len |-> N]])
    IN  /\ status = "ready"
        /\ params = made.p
        /\ org = made.org
        /\ twin = StepStages(made.p, made.org, Scale, DriveAll, Zeros(N)).last
        /\ op = [name |-> "init", dt |-> 0, Iin |-> << >>, n |-> << >>]
        /\ pre = NoOrganoid
        /\ stages = NoStages
        /\ quiet = TRUE
        /\ ncalls = 0
        /\ NumpyBackend
        /\ NoScenario /\ NoReturn /\ NoWrapper /\ NoFrames /\ NoShadows
        /\ NoTimesteps
        /\ med = NewMedium(D, Scale \div 10)
        /\ XY = [A |-> Positions(layout), B |-> Positions("mirror")]
        /\ mop = NoCall
        /\ msteps = 0

\* The voltages of the population the name stands for.
VOf(who) == IF who = "A" THEN org.V ELSE twin.V

\* medium.immerse(who).
MedImmerse(who) ==
  /\ med' = Immerse(med, who, VOf(who), XY[who])
  /\ mop' = [NoCall EXCEPT !.name = "immerse", !.arg = who]
  /\ UNCHANGED <<popvars, bevars, XY, msteps, scn, ret, wrap, gen,
                 sh, dts>>

\* medium.step(dt); before immerse() the lookup of self.org raises.
MedStep(dt) ==
  /\ ncalls + msteps < MaxChanges
  /\ IF med.org = None
       THEN /\ mop' = [NoCall EXCEPT !.name = "step", !.arg = dt,
                                     !.error = "AttributeError"]
            /\ UNCHANGED med
       ELSE LET st == MediumStep(params, med, VOf(med.org), dt)
            IN  /\ med' = st.med
                /\ mop' = [NoCall EXCEPT !.name = "step", !.arg = dt,
                                         !.V = VOf(med.org),
                                         !.before = med,
                                         !.scattered = st.scattered]
  /\ msteps' = msteps + 1
  /\ UNCHANGED <<popvars, bevars, XY, scn, ret, wrap, gen,
                 sh, dts>>

\* medium.probe_at(points).
MedProbeAt(points) ==
  /\ LET res == ProbeAt(med, points,
                        IF med.org = None THEN Unset ELSE XY[med.org])
     IN  /\ med' = res.med
         /\ mop' = [NoCall EXCEPT !.name = "probe_at", !.arg = points,
                                  !.error = res.error]
  /\ UNCHANGED <<popvars, bevars, XY, msteps, scn, ret, wrap, gen,
                 sh, dts>>

\* medium.probe(points), with an array of points or with none.
MedProbe(points) ==
  /\ LET res == Probe(params, med,
                      IF med.org = None THEN Unset ELSE VOf(med.org), points)
     IN  mop' = [NoCall EXCEPT !.name = "probe", !.arg = points,
                               !.error = res.error, !.ret = res.ret,
                               !.V = IF med.org = None THEN Unset
                                      ELSE VOf(med.org)]
  /\ UNCHANGED <<popvars, bevars, med, XY, msteps, scn, ret, wrap, gen,
                 sh, dts>>

\* org.step and org.reset of population A, immersed or not.
PopStep == ncalls + msteps < MaxChanges /\ Step(Scale, DriveAll, Zeros(N))
PopReset == ncalls + msteps < MaxChanges /\ DoReset

NextMedium ==
  \/ \E who \in {"A", "B"} : MedImmerse(who)
  \/ \E dt \in MedDtVals : MedStep(dt)
  \/ \E points \in PointSets : MedProbeAt(points)
  \/ \E points \in PointSets \cup {NoPoints} : MedProbe(points)
  \/ PopStep
  \/ PopReset

SpecMedium == InitMedium /\ [][NextMedium]_vars

----------------------------------------------------------------------------
(* The two-cell scenario: an excitatory cell 1 that feeds an inhibitory    *)
(* cell 2 (cells 0 and 1 of the program), plasticity off, no noise,        *)
(* dt = 0.5.  A constant current into cell 1 is applied for as long as the *)
(* caller likes and then removed for good.                                 *)

ScenarioConfigs ==
  [layout : {"EI"}, g : {"feed", "weak"}, stdp : {FALSE}, rate : {0},
   fault : {[name |-> "none", len |-> N]}]

InitScenario ==
  /\ InitFrom(ScenarioConfigs) /\ NumpyBackend /\ NoMedium
  /\ scn = [drive |-> TRUE, since |-> 0, gap |-> 0, rel |-> 0,
            marked |-> FALSE, risen |-> FALSE, high |-> FALSE]
  /\ NoReturn /\ NoWrapper /\ NoFrames /\ NoShadows
  /\ NoTimesteps

\* n + 1, or cap when that is less.
UpTo(n, cap) == IF n < cap THEN n + 1 ELSE cap

\* One org.step(0.5, Iin).  The counters stop at their caps.  scn.since
\* counts the steps made after the state in which cell 1 was first marked
\* fired, scn.gap the steps made with the current applied since cell 1 was
\* last marked (or since the start), scn.rel the steps made since the
\* current was removed; scn.marked tells whether cell 2 has ever been
\* marked, scn.risen whether A of cell 2 has ever been positive, scn.high
\* whether A of cell 1 has reached 1.
ScenarioStep(Iin, applied) ==
  /\ LET st == StepStages(params, org, Scale \div 2, Iin, Zeros(N))
     IN  /\ org' = st.last
         /\ stages' = st
         /\ scn' = [drive |-> applied,
                    since |-> IF scn.since > 0 THEN UpTo(scn.since, Horizon)
                              ELSE IF org.fired[1] THEN 1 ELSE 0,
                    gap |-> IF st.last.fired[1] \/ ~applied THEN 0
                            ELSE UpTo(scn.gap, Horizon),
                    rel |-> IF applied THEN 0 ELSE UpTo(scn.rel, Horizon),
                    marked |-> (scn.marked \/ st.last.fired[2]),
                    risen |-> (scn.risen \/ st.last.A[2] > 0),
                    high |-> (scn.high \/ st.last.A[1] >= Scale)]
  /\ pre' = org
  /\ op' = [name |-> "step", dt |-> Scale \div 2, Iin |-> Iin, n |-> Zeros(N)]
  /\ quiet' = FALSE
  /\ UNCHANGED <<status, params, twin, ncalls, bevars, medvars, ret, wrap, gen,
                 sh, dts>>

DrivenStep == scn.drive /\ ScenarioStep(DriveInput, TRUE)
ReleasedStep == ScenarioStep(ZeroInput, FALSE)

NextScenario == DrivenStep \/ ReleasedStep

SpecScenario == InitScenario /\ [][NextScenario]_vars

-----------------------------------------------------------------------------
(* Organoid.VUAdot(Iin) called by the user, between calls of step() and    *)
(* reset().                                                                *)

\* backend.stack(rows): a new array that holds copies of the rows.
Stack(rows) == [value |-> rows, view |-> FALSE, raised |-> FALSE]

\* A call that damps Adot in place (self.Adot /= self.tau) on its way.
VUAdotCallDampsInPlace(p, s, Iin) ==
  LET k == VUAdot(p, s, Iin)
  IN  [org |-> [s EXCEPT !.Isyn = k.Isyn, !.Idyn = k.Idyn, !.Adot = k.Adot],
       ret |-> Stack(<<k.Vdot, k.Udot, k.Adot, k.Addot>>)]

\* The object after one call VUAdot(Iin) that returns, and what it returns.
VUAdotCall(p, s, Iin) ==
  LET k == VUAdot(p, s, Iin)
  IN  [org |-> [s EXCEPT !.Isyn = k.Isyn, !.Idyn = k.Idyn],
       ret |-> Stack(<<k.Vdot, k.Udot, k.Adot, k.Addot>>)]

\* org.VUAdot(Iin).  When Iin does not broadcast, the call raises on the
\* line that computes Idyn, after Isyn has been assigned.
CallVUAdot(Iin) ==
  /\ status = "ready"
  /\ Consistent(params, org)
  /\ ncalls < MaxCalls
  /\ IF VUAdotRaises(params, Iin)
       THEN /\ org' = [org EXCEPT !.Isyn = IsynAt(params, org)]
            /\ ret' = [value |-> Unset, view |-> FALSE, raised |-> TRUE]
       ELSE LET c == VUAdotCall(params, org, Iin)
            IN  /\ org' = c.org
                /\ ret' = c.ret
  /\ pre' = org
  /\ op' = [name |-> "VUAdot", dt |-> 0, Iin |-> Iin, n |-> << >>]
  /\ ncalls' = ncalls + 1
  /\ UNCHANGED <<status, params, twin, stages, quiet, bevars, medvars, scn,
                 wrap, gen,
                 sh, dts>>

NextDeriv ==
  \/ Next
  \/ \E Iin \in IinVals : CallVUAdot(Iin)

SpecDeriv == Init /\ [][NextDeriv]_vars

-----------------------------------------------------------------------------
(* OrganoidWrapper: an Organoid that also keeps a timestep and an input    *)
(* scale.  Its constructor draws the cell parameters and G at random and   *)
(* passes them to Organoid.__init__; with N = 2 the first cell is          *)
(* excitatory and the second inhibitory.                                   *)

WrapperConfigs ==
  [layout : {"EI"}, g : {"feed", "all"}, stdp : {FALSE}, rate : {0},
   fault : {[name |-> "none", len |-> N]}]

\* The arguments dt and input_scale of the constructor.
WrapperDts == {Scale \div 2, Scale}
InputScale == 10

\* The unitless inputs and the intervals passed to total_firings.
WrapperInputs == {Zeros(N), [i \in Cells |-> IF i = 1 THEN Scale ELSE 0]}
Intervals == {Scale \div 2, Scale, 2 * Scale, (5 * Scale) \div 2}

\* self.input_scale * input.
ScaledInput(w, input) == [i \in Cells |-> w.input_scale * input[i]]

\* The attributes an OrganoidWrapper has after construction: those set by
\* Organoid.__init__ and reset(), then dt and input_scale.
WrapperAttrs ==
  {"N", "G", "XY", "VUA", "V", "U", "A", "Adot", "fired", "dt", "input_scale"}

NoFiringsCall ==
  [name |-> "none", input |-> Unset, interval |-> 0, error |-> "none",
   firings |-> Unset, steps |-> 0, elapsed |-> 0]

InitWrapper ==
  /\ InitFrom(WrapperConfigs) /\ NumpyBackend /\ NoMedium
  /\ NoScenario /\ NoReturn /\ NoFrames /\ NoShadows
  /\ NoTimesteps
  /\ \E dt \in WrapperDts :
       wrap = [dt |-> dt, input_scale |-> InputScale, attrs |-> WrapperAttrs,
               call |-> NoFiringsCall]

\* total_firings(input, interval).  Line 604 makes the array of counts and
\* line 605 compares interval with dt; whichever of lines 606 and 609 runs
\* next looks up self.org, an attribute that no line of the class assigns,
\* so the call raises before any step is taken.
TotalFiringsCall(w, s, input, interval) ==
  CASE "org" \notin w.attrs ->
         [error |-> "AttributeError", org |-> s, firings |-> Unset,
          steps |-> 0, elapsed |-> 0]

TotalFirings(input, interval) ==
  /\ status = "ready"
  /\ wrap # Unset
  /\ LET r == TotalFiringsCall(wrap, org, input, interval)
     IN  /\ org' = r.org
         /\ wrap' = [wrap EXCEPT !.call =
                       [name |-> "total_firings", input |-> input,
                        interval |-> interval, error |-> r.error,
                        firings |-> r.firings, steps |-> r.steps,
                        elapsed |-> r.elapsed]]
  /\ UNCHANGED <<status, params, twin, op, pre, stages, quiet, ncalls,
                 bevars, medvars, scn, ret, gen, sh,
                 dts>>

\* The inherited step(), called with the wrapper's dt and a scaled input.
WrapperStep(input) == Step(wrap.dt, ScaledInput(wrap, input), Zeros(N))

NextWrapper ==
  \/ \E input \in WrapperInputs : WrapperStep(input)
  \/ DoReset
  \/ \E input \in WrapperInputs, interval \in Intervals :
       TotalFirings(input, interval)

SpecWrapper == InitWrapper /\ [][NextWrapper]_vars

-----------------------------------------------------------------------------
(* _gen_frame_events(dt, events): the generator that Ca2tImage.animate     *)
(* hands to the animation as its frames.  Times are fixed-point numbers;   *)
(* an event is <<time, cell>>.                                             *)

FrameDt == Scale
EventTimes == {k * (Scale \div 2) : k \in 0..MaxTicks}

\* The lists of at most MaxEvents events in time order.
EventLists ==
  {ev \in UNION {[1..n -> EventTimes \X Cells] : n \in 0..MaxEvents} :
     \A j \in 1..(Len(ev) - 1) : ev[j][1] <= ev[j + 1][1]}

\* The generator object before its first next(): no line of the body has
\* run.  at is the index of the event at which the body is suspended.
InitFrames ==
  /\ NoPopulation /\ NumpyBackend /\ NoMedium
  /\ NoScenario /\ NoReturn /\ NoWrapper /\ NoShadows
  /\ NoTimesteps
  /\ \E ev \in EventLists :
       gen = [dt |-> FrameDt, events |-> ev, at |-> 0, T |-> 0,
              evs |-> << >>, yielded |-> << >>, done |-> FALSE]

\* The for loop from event k on, with the locals T and evs: it runs to the
\* next yield, or to the end of the events, where the generator returns
\* without yielding evs.
RECURSIVE Scan(_, _, _, _)
Scan(g, k, T, evs) ==
  IF k > Len(g.events)
    THEN [g EXCEPT !.at = k, !.T = T, !.evs = evs, !.done = TRUE]
    ELSE IF g.events[k][1] > T
      THEN [g EXCEPT !.at = k, !.T = T, !.evs = evs,
                     !.yielded = Append(@, evs)]
      ELSE Scan(g, k + 1, T,
                Append(evs, <<T - g.events[k][1], g.events[k][2]>>))

\* next(frames): the first call runs T, evs = dt, [] and enters the loop; a
\* later call resumes after the yield with T += dt, evs = [] and the append
\* of the event that caused the yield.
Resume(g) ==
  IF g.at = 0
    THEN Scan(g, 1, g.dt, << >>)
    ELSE Scan(g, g.at + 1, g.T + g.dt,
              <<(<<g.T + g.dt - g.events[g.at][1], g.events[g.at][2]>>)>>)

NextFrame ==
  /\ gen # Unset
  /\ ~gen.done
  /\ gen' = Resume(gen)
  /\ UNCHANGED <<popvars, bevars, medvars, scn, ret, wrap, sh,
                 dts>>

SpecFrames == InitFrames /\ [][NextFrame]_vars

-----------------------------------------------------------------------------
(* DatabaseInteractor (iot/shadows.py): things on the Strapi database.  A  *)
(* name is a sequence of characters; the database is the list of its       *)
(* things in the order of their ids, and its schema either declares the    *)
(* name of a thing unique or does not.                                     *)

Names == {<<"a">>, <<"b">>, <<"a", "&", "b">>}
Types == {"pump", "camera"}

\* self.id = None.
NoId == 0

\* The value of filters[name][$eq] that reaches the server when the name is
\* appended to the URL as it is: the query ends at the first "&".
RECURSIVE FilterValue(_)
FilterValue(name) ==
  IF name = << >> \/ Head(name) = "&"
    THEN << >>
    ELSE <<Head(name)>> \o FilterValue(Tail(name))

\* GET /interaction-things?filters[name][$eq]=value: response.json()['data'].
GetThings(things, value) ==
  LET Named(t) == t.name = value
  IN  SelectSeq(things, Named)

\* POST /interaction-things/ with {"data": attributes}: the status of the
\* response and the things afterwards.  A schema with a unique name refuses
\* a second thing of the same name.
PostThing(unique, things, attrs) ==
  IF unique /\ \E k \in 1..Len(things) : things[k].name = attrs.name
    THEN [status |-> 400, id |-> NoId, things |-> things]
    ELSE [status |-> 200, id |-> Len(things) + 1,
          things |-> Append(things, [id |-> Len(things) + 1,
                                     name |-> attrs.name,
                                     type |-> attrs.type])]

\* The branch of Thing.create taken when the GET found nothing.
CreateByPost(unique, things, attrs) ==
  LET r == PostThing(unique, things, attrs)
  IN  [things |-> r.things, posted |-> TRUE,
       id |-> IF r.status = 200 THEN r.id ELSE NoId,
       attributes |-> attrs]

\* The branch taken when the GET found something: parse_API_response of
\* the first thing found.
AdoptFound(things, found) ==
  [things |-> things, posted |-> FALSE, id |-> found[1].id,
   attributes |-> [name |-> found[1].name, type |-> found[1].type]]

\* Thing.create() run from its first line to its last with nothing else
\* talking to the database.
ThingCreate(unique, things, attrs) ==
  LET found == GetThings(things, FilterValue(attrs.name))
  IN  IF Len(found) = 0
        THEN CreateByPost(unique, things, attrs)
        ELSE AdoptFound(things, found)

\* One client making one call after another.  calls lists the calls made:
\* the arguments, whether a POST was issued and the Thing returned.
InitCreate ==
  /\ NoPopulation /\ NumpyBackend /\ NoMedium
  /\ NoScenario /\ NoReturn /\ NoWrapper /\ NoFrames /\ NoTimesteps
  /\ \E unique \in BOOLEAN :
       sh = [unique |-> unique, things |-> << >>, calls |-> << >>]

\* create_interaction_thing(type, name).
CreateInteractionThing(type, name) ==
  /\ sh # Unset
  /\ Len(sh.calls) < MaxCreates
  /\ LET r == ThingCreate(sh.unique, sh.things,
                          [name |-> name, type |-> type])
     IN  sh' = [sh EXCEPT !.things = r.things,
                  !.calls = Append(@, [name |-> name, type |-> type,
                                       posted |-> r.posted, id |-> r.id,
                                       attributes |-> r.attributes])]
  /\ UNCHANGED <<popvars, bevars, medvars, scn, ret, wrap, gen,
                 dts>>

NextCreate ==
  \E type \in Types, name \in Names : CreateInteractionThing(type, name)

SpecCreate == InitCreate /\ [][NextCreate]_vars

\* Two clients of the same database, each calling create_interaction_thing
\* once with the same name.  A client is idle, about to send the GET of
\* Thing.create ("get"), holding its response ("got"), or back from the
\* call ("done"); every request is served whole, and requests of the two
\* clients are served in any order.
Clients == {1, 2}

IdleClient ==
  [pc |-> "idle", type |-> None, found |-> << >>, posted |-> FALSE,
   id |-> NoId]

InitRace ==
  /\ NoPopulation /\ NumpyBackend /\ NoMedium
  /\ NoScenario /\ NoReturn /\ NoWrapper /\ NoFrames /\ NoTimesteps
  /\ \E unique \in BOOLEAN, name \in Names :
       sh = [unique |-> unique, things |-> << >>, name |-> name,
             clients |-> [c \in Clients |-> IdleClient]]

\* create_interaction_thing(type, name) up to the call of thing.create().
ClientCall(c, type) ==
  /\ sh.clients[c].pc = "idle"
  /\ sh' = [sh EXCEPT !.clients[c].pc = "get", !.clients[c].type = type]
  /\ UNCHANGED <<popvars, bevars, medvars, scn, ret, wrap, gen, dts>>

\* Thing.create(): the GET and its response.
ClientGet(c) ==
  /\ sh.clients[c].pc = "get"
  /\ sh' = [sh EXCEPT !.clients[c].pc = "got",
                      !.clients[c].found =
                         GetThings(sh.things, FilterValue(sh.name))]
  /\ UNCHANGED <<popvars, bevars, medvars, scn, ret, wrap, gen, dts>>

\* Thing.create(): the POST sent because the GET found nothing.
ClientPost(c) ==
  /\ sh.clients[c].pc = "got"
  /\ Len(sh.clients[c].found) = 0
  /\ LET r == CreateByPost(sh.unique, sh.things,
                           [name |-> sh.name, type |-> sh.clients[c].type])
     IN  sh' = [sh EXCEPT !.things = r.things,
                          !.clients[c].pc = "done",
                          !.clients[c].posted = r.posted,
                          !.clients[c].id = r.id]
  /\ UNCHANGED <<popvars, bevars, medvars, scn, ret, wrap, gen, dts>>

\* Thing.create(): the thing the GET found is taken over.
ClientAdopt(c) ==
  /\ sh.clients[c].pc = "got"
  /\ Len(sh.clients[c].found) # 0
  /\ LET r == AdoptFound(sh.things, sh.clients[c].found)
     IN  sh' = [sh EXCEPT !.clients[c].pc = "done",
                          !.clients[c].posted = r.posted,
                          !.clients[c].id = r.id]
  /\ UNCHANGED <<popvars, bevars, medvars, scn, ret, wrap, gen, dts>>

NextRace ==
  \E c \in Clients :
    \/ \E type \in Types : ClientCall(c, type)
    \/ ClientGet(c)
    \/ ClientPost(c)
    \/ ClientAdopt(c)

SpecRace == InitRace /\ [][NextRace]_vars

-----------------------------------------------------------------------------
(* A population with plasticity enabled, with and without synaptic         *)
(* scaling, whose shortest trace time constant (stdp_tau_plus = 0.7) lies  *)
(* between the two timesteps it is stepped with.                           *)

StdpConfigs ==
  {[layout |-> lg[1], g |-> lg[2], stdp |-> TRUE, rate |-> 0,
    fault |-> [name |-> "none", len |-> N], scaling |-> sc,
    taus |-> <<(7 * Scale) \div 10, 4 * Scale, 5 * Scale>>] :
     lg \in {<<"HE", "feed">>, <<"EI", "all">>, <<"EE", "all">>},
     sc \in {0, Scale}}

StdpDts == {Scale \div 2, Scale}

\* Currents into the first cell, into the second, or none.
StdpInputs ==
  {ZeroInput, DriveInput, [i \in Cells |-> IF i = 2 THEN 10 * Scale ELSE 0]}

InitStdp ==
  /\ InitFrom(StdpConfigs) /\ NumpyBackend /\ NoMedium
  /\ NoScenario /\ NoReturn /\ NoWrapper /\ NoFrames /\ NoShadows
  /\ NoTimesteps

\* org.step(dt, Iin) with the timestep added to the record.
PlasticStep(dt, Iin) ==
  /\ status = "ready"
  /\ ncalls < MaxCalls
  /\ LET st == StepStages(params, org, dt, Iin, Zeros(N))
     IN  /\ org' = st.last
         /\ stages' = st
  /\ pre' = org
  /\ op' = [name |-> "step", dt |-> dt, Iin |-> Iin, n |-> Zeros(N)]
  /\ quiet' = (quiet /\ Iin = ZeroInput)
  /\ ncalls' = ncalls + 1
  /\ dts' = Append(dts, dt)
  /\ UNCHANGED <<status, params, twin, bevars, medvars, scn, ret, wrap, gen,
                 sh>>

NextStdp ==
  \/ \E dt \in StdpDts, Iin \in StdpInputs : PlasticStep(dt, Iin)
  \/ DoReset

SpecStdp == InitStdp /\ [][NextStdp]_vars

----------------------------------------------------------------------------
(* The snapshot of the voltages: a medium, the populations A and B, and    *)
(* the calls that copy or change the voltages.  The record of a call on    *)
(* the medium also holds how many calls and steps population A had made    *)
(* when the call ran, how many of them came after the previous call, and   *)
(* the name of the previous call and the voltages it read.                 *)

NoSnapshot ==
  [name |-> "none", arg |-> None, error |-> "none", V |-> Unset,
   before |-> Unset, scattered |-> Unset, prev |-> "none", last |-> Unset,
   calls |-> 0, steps |-> 0, callsSince |-> 0, stepsSince |-> 0]

InitSnapshot ==
  \E mc \in MediumConfigs :
    LET layout == mc[1]
        D == mc[2]
        made == Construct([layout |-> "EI", g |-> "feed", stdp |-> FALSE,
                           rate |-> 0,
                           fault |-> [name |-> "none", len |-> N]])
    IN  /\ status = "ready"
        /\ params = made.p
        /\ org = made.org
        /\ twin = StepStages(made.p, made.org, Scale, DriveAll, Zeros(N)).last
        /\ op = [name |-> "init", dt |-> 0, Iin |-> << >>, n |-> << >>]
        /\ pre = NoOrganoid
        /\ stages = NoStages
        /\ quiet = TRUE
        /\ ncalls = 0
        /\ NumpyBackend
        /\ NoScenario /\ NoReturn /\ NoWrapper /\ NoFrames /\ NoShadows
        /\ NoTimesteps
        /\ med = NewMedium(D, Scale \div 10)
        /\ XY = [A |-> Positions(layout), B |-> Positions("mirror")]
        /\ mop = NoSnapshot
        /\ msteps = 0

\* medium.immerse(who).
SnapshotImmerse(who) ==
  /\ med' = Immerse(med, who, VOf(who), XY[who])
  /\ mop' = [NoSnapshot EXCEPT !.name = "immerse", !.arg = who,
                               !.V = VOf(who), !.before = med,
                               !.prev = mop.name, !.last = mop.V,
                               !.calls = ncalls, !.steps = Len(dts),
                               !.callsSince = ncalls - mop.calls,
                               !.stepsSince = Len(dts) - mop.steps]
  /\ UNCHANGED <<popvars, bevars, XY, msteps, scn, ret, wrap, gen,
                 sh, dts>>

\* medium.step(dt); before immerse() the lookup of self.org raises.
SnapshotStep(dt) ==
  /\ msteps + 1 < MaxChanges
  /\ IF med.org = None
       THEN /\ mop' = [mop EXCEPT !.name = "step", !.arg = dt,
                                  !.error = "AttributeError"]
            /\ UNCHANGED med
       ELSE LET st == MediumStep(params, med, VOf(med.org), dt)
            IN  /\ med' = st.med
                /\ mop' = [NoSnapshot EXCEPT
                             !.name = "step", !.arg = dt,
                             !.V = VOf(med.org), !.before = med,
                             !.scattered = st.scattered,
                             !.prev = mop.name, !.last = mop.V,
                             !.calls = ncalls, !.steps = Len(dts),
                             !.callsSince = ncalls - mop.calls,
                             !.stepsSince = Len(dts) - mop.steps]
  /\ msteps' = msteps + 1
  /\ UNCHANGED <<popvars, bevars, XY, scn, ret, wrap, gen,
                 sh, dts>>

NextSnapshot ==
  \/ \E who \in {"A", "B"} : SnapshotImmerse(who)
  \/ \E dt \in MedDtVals : SnapshotStep(dt)
  \/ PlasticStep(Scale, DriveAll)
  \/ DoReset

SpecSnapshot == InitSnapshot /\ [][NextSnapshot]_vars

\* Construction under either backend, in each kind of process.  The
\* constructor stops at the first line that raises.
InitBackend ==
  /\ torch \in TorchEnvs
  /\ backend = "none"
  /\ array = "none"
  /\ status = "unbuilt"
  /\ params = << >>
  /\ org = NoOrganoid
  /\ twin = NoOrganoid
  /\ op = [name |-> "none", dt |-> 0, Iin |-> << >>, n |-> << >>]
  /\ pre = NoOrganoid
  /\ stages = NoStages
  /\ quiet = TRUE
  /\ ncalls = 0
  /\ NoMedium
  /\ NoScenario /\ NoReturn /\ NoWrapper /\ NoFrames /\ NoShadows
  /\ NoTimesteps

\* Organoid(G=..., backend=b, ...).
NewOrganoid(b, cfg) ==
  /\ status = "unbuilt"
  /\ backend' = b
  /\ array' = BackendArray(torch, b)
  /\ LET made == Construct(cfg)
     IN  IF BackendArray(torch, b) = "ImportError"
           THEN /\ status' = "raised"
                /\ UNCHANGED <<params, org, twin>>
           ELSE /\ status' = IF made.raised THEN "raised" ELSE "ready"
                /\ params' = made.p
                /\ org' = made.org
                /\ twin' = made.org
  /\ op' = [name |-> "init", dt |-> 0, Iin |-> << >>, n |-> << >>]
  /\ UNCHANGED <<torch, pre, stages, quiet, ncalls, medvars, scn, ret, wrap, gen,
                 sh, dts>>

NextBackend == \E b \in Backends, cfg \in Configs : NewOrganoid(b, cfg)

SpecBackend == InitBackend /\ [][NextBackend]_vars

----------------------------------------------------------------------------
(* Properties of the population.                                           *)

Completed == status = "ready" /\ op.name = "step" /\ ~stages.raised

\* C1: with plasticity enabled and an initial G >= 0, no entry of G is
\* negative after any call, and an entry that the STDP and scaling updates of
\* a step take below zero is exactly 0 after that step.
GNeverNegative ==
  (status = "ready" /\ params.do_stdp) =>
    /\ \A i \in 1..Len(org.G) : \A j \in 1..Len(org.G[i]) : org.G[i][j] >= 0
    /\ op.name = "step" =>
         \A i \in Cells : \A j \in Cells :
           stages.unclipped[i][j] < 0 => org.G[i][j] = 0

\* Witness of C1: a completed step of a plastic population whose update took
\* an entry of G below zero.
GClippedToZero ==
  /\ Completed
  /\ params.do_stdp
  /\ \E i \in Cells : \E j \in Cells :
       stages.unclipped[i][j] < 0 /\ org.G[i][j] = 0

\* C2: after construction and after reset(), whatever the state before, every
\* cell has V = Vr and U = A = Adot = 0, and fired[i] is (Vr[i] >= Vp[i]):
\* false for a cell that rests below its peak.
ResetEstablishesRest ==
  (status = "ready" /\ op.name \in {"init", "reset"}) =>
    /\ Len(org.V) = params.N /\ Len(org.fired) = params.N
    /\ org.U = Zeros(params.N) /\ org.A = Zeros(params.N)
    /\ org.Adot = Zeros(params.N)
    /\ \A i \in 1..params.N :
         /\ org.V[i] = Bc(params.Vr, i)
         /\ org.fired[i] = (Bc(params.Vr, i) >= Bc(params.Vp, i))
         /\ Bc(params.Vr, i) < Bc(params.Vp, i) => ~org.fired[i]

\* Witness of C2: a reset() of a population that had left rest in every
\* phase variable and had a cell marked fired.
ResetFromActivity ==
  /\ status = "ready" /\ op.name = "reset"
  /\ \E i \in Cells :
       /\ pre.fired[i] /\ pre.V[i] # params.Vr[i] /\ pre.U[i] # 0
       /\ pre.A[i] # 0 /\ pre.Adot[i] # 0

Observable == status = "ready" /\ (op.name \in {"init", "reset"} \/ Completed)

FiredLagsOneStep ==
  Completed =>
    /\ stages.corrected.fired = pre.fired
    /\ \A i \in Cells :
         /\ org.fired[i] = (stages.full.V[i] >= params.Vp[i])
         /\ (stages.reset.V[i] = params.c[i] /\ pre.V[i] # params.c[i])
              => pre.fired[i]
         /\ org.Idyn[i] - stages.full.Idyn[i] =
              IF pre.fired[i]
                THEN Mul(params.C[i], params.c[i] - params.Vp[i])
                ELSE 0
         /\ (params.do_stdp /\ ~pre.fired[i]) =>
              \A r \in 1..3 :
                org.traces[r][i] =
                  Mul(pre.traces[r][i],
                      Scale - Div(op.dt, params.tau_stdp[r]))
    /\ ~AnyFired(pre) => org.G = pre.G

\* Witness of C5: a completed step of a plastic population in which a cell
\* that was not marked, and whose traces were above zero from an earlier
\* spike, crossed the peak, with a positive conductance in G.
CrossingDuringStep ==
  /\ Completed
  /\ params.do_stdp
  /\ \A i \in Cells : params.Vr[i] < params.Vp[i]
  /\ \E i \in Cells :
       /\ ~pre.fired[i] /\ org.fired[i]
       /\ \A r \in 1..3 : pre.traces[r][i] > 0
  /\ \E i \in Cells : \E j \in Cells : pre.G[i][j] > 0

\* C6: a step leaves G unchanged when do_stdp is False or no cell is marked
\* fired at its start; with do_stdp False the traces never change.
PlasticityGated ==
  status = "ready" =>
    /\ op.name = "step" =>
         /\ (~params.do_stdp \/ ~AnyFired(pre)) => org.G = pre.G
         /\ ~params.do_stdp => org.traces = pre.traces
    /\ ~params.do_stdp =>
         org.traces = <<Zeros(params.N), Zeros(params.N), Zeros(params.N)>>

\* Witness of C6: with plasticity off, a second completed step that began
\* with a cell marked fired, on a population with a positive conductance.
SpikeWithoutPlasticity ==
  /\ Completed
  /\ ~params.do_stdp
  /\ ncalls >= 2
  /\ AnyFired(pre)
  /\ \E i \in Cells : \E j \in Cells : org.G[i][j] > 0

\* C7: from reset(), with Vr < Vp for every cell, no noise, no plasticity
\* and Iin = 0 on every step, the state stays at V = Vr, U = A = Adot = 0 and
\* no cell is marked fired, for any dt and any number of steps.
RestIsFixedPoint ==
  (/\ status = "ready" /\ Consistent(params, org)
   /\ quiet
   /\ params.noise_event_rate = 0 /\ ~params.do_stdp
   /\ \A i \in Cells : params.Vr[i] < params.Vp[i])
    => /\ org.V = params.Vr
       /\ org.U = Zeros(N) /\ org.A = Zeros(N) /\ org.Adot = Zeros(N)
       /\ ~AnyFired(org)

\* Witness of C7: two steps with zero input since the last reset(), on a
\* coupled population with no noise and no plasticity.
QuietSteps ==
  /\ Completed /\ quiet
  /\ ncalls >= 2
  /\ pre.Idyn # Unset
  /\ params.noise_event_rate = 0 /\ ~params.do_stdp
  /\ \A i \in Cells : params.Vr[i] < params.Vp[i]
  /\ \E i \in Cells : \E j \in Cells : org.G[i][j] > 0

RaisingStepChangesNothing ==
  (status = "ready" /\ op.name = "step" /\ stages.raised) =>
    /\ org.V = pre.V /\ org.U = pre.U /\ org.Adot = pre.Adot
    /\ org.G = pre.G /\ org.traces = pre.traces /\ org.fired = pre.fired

\* C10: the constructor returns an object only when every per-cell vector
\* has length N and G is N x N.
ConstructorChecksShapes ==
  status = "ready" => Consistent(params, org)

\* C11: a population asked for with the torch backend in a process without
\* CUDA is never built: the constructor raises the backend's ImportError,
\* both when torch is missing and when torch is installed without CUDA.
TorchWithoutCudaFails ==
  (op.name = "init" /\ backend = "torch" /\ torch # "cuda") =>
    (status = "raised" /\ array = "ImportError")

----------------------------------------------------------------------------
(* Properties of the medium.                                               *)

\* The sum of a grid over all its points.
GridTotal(rho) ==
  SumTo([x \in 1..Len(rho) |-> SumTo(rho[x], Len(rho[x]))], Len(rho))

\* The charge density cell i injects in the last step of the medium.
Injected(i) ==
  Div(Mul(params.C[i], mop.before.Vprev[i] - mop.V[i]),
      Mul(mop.before.dx, mop.before.dy))

\* C12: the scatter of a step of the medium adds, at every grid point, the
\* sum of C*(Vprev - V)/(dx*dy) over the cells quantized to it, so the grid
\* total of rho grows by exactly the sum over all cells; with D = 0 the
\* grid total after the step is the total before plus the injected charge.
ChargeConserved ==
  (mop.name = "step" /\ mop.error = "none") =>
    /\ \A x \in 1..GridLen : \A y \in 1..GridLen :
         mop.scattered[x][y] =
           mop.before.rho[x][y]
             + SumTo([i \in Cells |->
                        IF /\ med.neuron_grid[1][i] = x
                           /\ med.neuron_grid[2][i] = y
                          THEN Injected(i) ELSE 0], N)
    /\ GridTotal(mop.scattered) =
         GridTotal(mop.before.rho) + SumTo([i \in Cells |-> Injected(i)], N)
    /\ med.D = 0 =>
         GridTotal(med.rho) =
           GridTotal(mop.before.rho) + SumTo([i \in Cells |-> Injected(i)], N)

\* Witness of C12: a step of a medium with D = 0 in which two cells on the
\* same grid point each injected a charge.
DuplicatesAddUp ==
  /\ mop.name = "step" /\ mop.error = "none"
  /\ med.D = 0
  /\ \E i \in Cells : \E j \in Cells :
       /\ i # j
       /\ med.neuron_grid[1][i] = med.neuron_grid[1][j]
       /\ med.neuron_grid[2][i] = med.neuron_grid[2][j]
       /\ Injected(i) # 0 /\ Injected(j) # 0

\* A population has a cell beyond the extent of the grid.
HasCellOutside(who) ==
  \E i \in Cells :
    \/ XY[who][1][i] < Xgrid[1] \/ XY[who][1][i] > Xgrid[GridLen]
    \/ XY[who][2][i] < Ygrid[1] \/ XY[who][2][i] > Ygrid[GridLen]

\* C13: immersing a population with a cell outside the grid raises an
\* out-of-range error, and the medium is never bound to such a population.
OutsideGridRejected ==
  \A who \in {"A", "B"} :
    (mop.name # "none" /\ HasCellOutside(who)) =>
      /\ med.org # who
      /\ (mop.name = "immerse" /\ mop.arg = who) => mop.error # "none"

\* C14: rho changes only in medium.step: immerse, probe_at, probe, and
\* step and reset of the population leave it as it was.
RhoChangedOnlyByMediumStep ==
  [][(med.rho # med'.rho) =>
       (mop'.name = "step" /\ msteps' = msteps + 1)]_vars

\* Witness of C14: a medium that holds charge, on which a probe returned,
\* after which the population was reset from activity.
ChargeOutlivesCalls ==
  /\ mop.name = "probe" /\ mop.error = "none"
  /\ \E x \in 1..GridLen : \E y \in 1..GridLen : med.rho[x][y] # 0
  /\ op.name = "reset" /\ mop.V # org.V

\* C15: on an immersed medium, probe(points) with points given selects
\* them and returns, also when no probe points were set before.
ProbeSelectsGivenPoints ==
  (mop.name = "probe" /\ mop.arg # NoPoints /\ med.org # None) =>
    (mop.error = "none" /\ med.points = mop.arg)

\* C16: a probe that returns gives the potentials that distances computed
\* afresh, from the selected points and the population now immersed, give.
ProbeCacheTransparent ==
  (mop.name = "probe" /\ mop.error = "none") =>
    mop.ret = Potentials(params, med, mop.V,
                         GridDistances(med, med.points),
                         CellDistances(med.points, XY[med.org]))

----------------------------------------------------------------------------
(* The end-to-end scenario.                                                *)

-----------------------------------------------------------------------------
(* Properties of the derivatives operation.                                *)

\* C18: a call of VUAdot(Iin) leaves V, U, A, Adot, G, fired and the traces
\* as they were; it overwrites Isyn and Idyn with the currents of the
\* present state, and returns a fresh 4 x N array of the derivatives, not a
\* view of the state.
VUAdotLeavesState ==
  op.name = "VUAdot" =>
    /\ org.V = pre.V /\ org.U = pre.U /\ org.A = pre.A
    /\ org.Adot = pre.Adot /\ org.G = pre.G
    /\ org.fired = pre.fired /\ org.traces = pre.traces
    /\ ~ret.view
    /\ ~ret.raised =>
         /\ Len(ret.value) = 4
         /\ \A i \in Cells :
              /\ org.Idyn[i] =
                   Mul(Mul(params.k[i], pre.V[i] - params.Vr[i]),
                       pre.V[i] - params.Vt[i]) - pre.U[i] + op.Iin[i]
              /\ ret.value[1][i] =
                   Div(org.Idyn[i] + org.Isyn[i], params.C[i])
              /\ ret.value[2][i] =
                   Mul(params.a[i],
                       Mul(params.b[i], pre.V[i] - params.Vr[i]) - pre.U[i])
              /\ ret.value[3][i] = Div(pre.Adot[i], params.tau[i])
              /\ ret.value[4][i] =
                   Div(-(pre.A[i] + 2 * pre.Adot[i]), params.tau[i])

\* Witness of C18: VUAdot returned on a population that a step had left
\* with transmitter being released, and replaced the currents cached by
\* that step.
VUAdotReplacedCache ==
  /\ op.name = "VUAdot" /\ ~ret.raised
  /\ pre.Idyn # Unset /\ org.Idyn # pre.Idyn
  /\ \E i \in Cells : pre.Adot[i] # 0 /\ ret.value[3][i] # 0

-----------------------------------------------------------------------------
(* Properties of the wrapper.                                              *)

\* C19: a call total_firings(input, interval) returns a count for each
\* cell, after taking at least one step and advancing the simulation by
\* exactly interval.
TotalFiringsAdvancesAndCounts ==
  wrap.call.name = "total_firings" =>
    /\ wrap.call.error = "none"
    /\ wrap.call.steps >= 1
    /\ wrap.call.elapsed = wrap.call.interval
    /\ Len(wrap.call.firings) = N

-----------------------------------------------------------------------------
(* Properties of the frame generator.                                      *)

\* C20: once the generator is exhausted, the batches it yielded hold as
\* many entries as there were events; the k-th batch is exactly the events
\* with time in ((k-1)*dt, k*dt], in order, each as <<k*dt - time, cell>>;
\* and every offset lies in [0, dt).
FramesPartitionEvents ==
  (gen # Unset /\ gen.done) =>
    LET InFrame(k, e) == (k - 1) * gen.dt < e[1] /\ e[1] <= k * gen.dt
        total[k \in 0..Len(gen.yielded)] ==
          IF k = 0 THEN 0 ELSE total[k - 1] + Len(gen.yielded[k])
    IN  /\ total[Len(gen.yielded)] = Len(gen.events)
        /\ \A k \in 1..Len(gen.yielded) :
             LET Here(e) == InFrame(k, e)
                 due == SelectSeq(gen.events, Here)
             IN  gen.yielded[k] =
                   [m \in 1..Len(due) |-> <<k * gen.dt - due[m][1], due[m][2]>>]
        /\ \A k \in 1..Len(gen.yielded) : \A m \in 1..Len(gen.yielded[k]) :
             /\ 0 <= gen.yielded[k][m][1]
             /\ gen.yielded[k][m][1] < gen.dt

\* C23: in a step with plasticity enabled and a cell marked fired, G before
\* clipping is G after the two spike updates less
\* (trace_y[i] - 0.5)*dt*Ascaling in every row i of exactly the columns j with
\* Vn[j] > Vt[j]; and a step in which no cell is marked fired leaves G alone.
ScalingOnExcitatoryColumns ==
  (op.name = "step" /\ params.do_stdp) =>
    IF AnyFired(pre)
      THEN \A i \in Cells : \A j \in Cells :
             LET minus == IF pre.fired[j]
                            THEN Mul(params.Aminus, pre.traces[2][j]) ELSE 0
                 plus == IF pre.fired[i]
                           THEN Mul(params.Aplus,
                                    Mul(pre.traces[1][j], pre.traces[3][i]))
                           ELSE 0
                 term == Mul(Mul(pre.traces[3][i] - Scale \div 2, op.dt),
                             params.Ascaling)
             IN  stages.unclipped[i][j] =
                   pre.G[i][j] - minus + plus
                     - (IF params.Vn[j] > params.Vt[j] THEN term ELSE 0)
      ELSE org.G = pre.G

\* Witness of C23: a step with a cell marked fired, in a population with an
\* excitatory and an inhibitory cell and a scaling rate above 0, whose
\* scaling term is not 0.
ScalingApplied ==
  /\ op.name = "step" /\ params.do_stdp /\ AnyFired(pre)
  /\ params.Ascaling > 0
  /\ \E j \in Cells : params.Vn[j] > params.Vt[j]
  /\ \E j \in Cells : params.Vn[j] <= params.Vt[j]
  /\ \E i \in Cells :
       Mul(Mul(pre.traces[3][i] - Scale \div 2, op.dt), params.Ascaling) # 0

\* C24: with plasticity enabled every step leaves
\*   traces'[r,i] = (traces[r,i] + [i fired]) * (1 - dt/tau_r)
\* in all three rows: the increment for the cells marked fired, then the
\* decay, which is applied whether or not any cell is marked fired.
TraceUpdate ==
  (op.name = "step" /\ params.do_stdp) =>
    \A r \in 1..3 : \A i \in Cells :
      org.traces[r][i] =
        Mul(pre.traces[r][i] + (IF pre.fired[i] THEN Scale ELSE 0),
            Scale - Div(op.dt, params.tau_stdp[r]))

\* Witness of C24: a step in which no cell was marked fired decayed traces
\* that an earlier spike had raised.
TracesDecayWithoutSpike ==
  /\ op.name = "step" /\ params.do_stdp /\ ~AnyFired(pre)
  /\ \E r \in 1..3 : \E i \in Cells :
       pre.traces[r][i] > 0 /\ org.traces[r][i] < pre.traces[r][i]

\* C28: with plasticity enabled and every step so far taken with
\* 0 < dt <= min(stdp_tau_plus, stdp_tau_minus, stdp_tau_y), the three traces
\* are >= 0, and in a step with a cell marked fired the amount the
\* presynaptic update takes from an entry and the amount the postsynaptic
\* update adds to it are both >= 0.
TracesNeverNegative ==
  (params.do_stdp
   /\ \A k \in 1..Len(dts) : \A r \in 1..3 :
        0 < dts[k] /\ dts[k] <= params.tau_stdp[r]) =>
    /\ \A r \in 1..3 : \A i \in Cells : org.traces[r][i] >= 0
    /\ (op.name = "step" /\ AnyFired(pre)) =>
         \A i \in Cells : \A j \in Cells :
           /\ Mul(params.Aminus, pre.traces[2][j]) >= 0
           /\ Mul(params.Aplus, Mul(pre.traces[1][j], pre.traces[3][i])) >= 0

\* Witness of C28: after steps within the shortest time constant, the last
\* with a cell marked fired whose three traces were above 0.
PositiveTracesAtUpdate ==
  /\ params.do_stdp /\ Len(dts) >= 2
  /\ \A k \in 1..Len(dts) : \A r \in 1..3 : dts[k] <= params.tau_stdp[r]
  /\ op.name = "step"
  /\ \E i \in Cells :
       pre.fired[i] /\ \A r \in 1..3 : pre.traces[r][i] > 0

-----------------------------------------------------------------------------
(* Properties of the integration.                                          *)

\* C25: a step that completes makes two derivative evaluations and its
\* integration stage leaves VUA = VUA0 + dt*f(VUA0 + (dt/2)*f(VUA0)), where
\* VUA0 is the state after the reset and the noise and f the derivative at
\* the given Iin; the Isyn and Idyn cached by the stage are those of the
\* evaluation at the half-advanced state.
MidpointIntegration ==
  (op.name = "step" /\ ~stages.raised) =>
    LET s0 == stages.stdp
        k1 == VUAdot(params, s0, op.Iin)
        half(x) == Mul(x, op.dt) \div 2
        mid == [s0 EXCEPT
                  !.V = [i \in Cells |-> s0.V[i] + half(k1.Vdot[i])],
                  !.U = [i \in Cells |-> s0.U[i] + half(k1.Udot[i])],
                  !.A = [i \in Cells |-> s0.A[i] + half(k1.Adot[i])],
                  !.Adot = [i \in Cells |-> s0.Adot[i] + half(k1.Addot[i])]]
        k2 == VUAdot(params, mid, op.Iin)
    IN  /\ stages.evals = 2
        /\ s0.V = stages.noise.V /\ s0.U = stages.noise.U
        /\ s0.A = stages.noise.A /\ s0.Adot = stages.noise.Adot
        /\ \A i \in Cells :
             /\ stages.full.V[i] = s0.V[i] + Mul(k2.Vdot[i], op.dt)
             /\ stages.full.U[i] = s0.U[i] + Mul(k2.Udot[i], op.dt)
             /\ stages.full.A[i] = s0.A[i] + Mul(k2.Adot[i], op.dt)
             /\ stages.full.Adot[i] = s0.Adot[i] + Mul(k2.Addot[i], op.dt)
        /\ stages.full.Isyn = k2.Isyn
        /\ stages.full.Idyn = k2.Idyn

\* Witness of C25: a completed step whose two derivative evaluations
\* disagreed about the voltage of a cell, and which moved that voltage.
MidpointDiffersFromEuler ==
  /\ op.name = "step" /\ ~stages.raised
  /\ \E i \in Cells :
       /\ stages.half.Idyn[i] # stages.full.Idyn[i]
       /\ stages.full.V[i] # stages.stdp.V[i]
       /\ stages.full.V[i] #
            stages.stdp.V[i]
              + Mul(VUAdot(params, stages.stdp, op.Iin).Vdot[i], op.dt)

\* C26: after a step that completes, Idyn of each cell that was marked
\* fired when the step began is the value cached by the second derivative
\* evaluation plus C*(c - Vp); Idyn of every other cell is the cached value,
\* and Isyn is the cached value for every cell.
IdynCorrectedForResetCells ==
  (op.name = "step" /\ ~stages.raised) =>
    /\ \A i \in Cells :
         org.Idyn[i] =
           IF pre.fired[i]
             THEN stages.full.Idyn[i]
                    + Mul(params.C[i], params.c[i] - params.Vp[i])
             ELSE stages.full.Idyn[i]
    /\ org.Isyn = stages.full.Isyn

\* Witness of C26: a completed step that began with one cell marked fired
\* and ended with another cell marked, so that the mask the correction used
\* is not the mask the step left.
CorrectionUsesOldMask ==
  /\ op.name = "step" /\ ~stages.raised
  /\ \E i \in Cells :
       /\ pre.fired[i] /\ ~org.fired[i]
       /\ org.Idyn[i] # stages.full.Idyn[i]
  /\ \E j \in Cells :
       /\ ~pre.fired[j] /\ org.fired[j]
       /\ org.Idyn[j] = stages.full.Idyn[j]

-----------------------------------------------------------------------------
(* Properties of the database interactor.                                  *)

\* C21: after any calls of create_interaction_thing made one after another,
\* for every name that was passed at most one of the calls issued a POST,
\* the database holds exactly one thing of that name, and every call with
\* that name returned a Thing carrying the id of that thing.
CreateOnlyIfAbsent ==
  sh # Unset =>
    \A name \in Names :
      LET called == {k \in 1..Len(sh.calls) : sh.calls[k].name = name}
          held == {k \in 1..Len(sh.things) : sh.things[k].name = name}
      IN  called # {} =>
            /\ Cardinality({k \in called : sh.calls[k].posted}) <= 1
            /\ Cardinality(held) = 1
            /\ \A k \in called : \A t \in held :
                 sh.calls[k].id = sh.things[t].id

\* C29: when both clients have returned from create_interaction_thing for
\* the same name, a name the GET filters by as written, the database holds
\* at most one thing of that name, in whatever order the requests of the
\* two clients were served.
NoDuplicateUnderRace ==
  (/\ \A c \in Clients : sh.clients[c].pc = "done"
   /\ FilterValue(sh.name) = sh.name) =>
    Cardinality({k \in 1..Len(sh.things) : sh.things[k].name = sh.name}) <= 1

-----------------------------------------------------------------------------
(* Properties of the snapshot of the voltages                               *)

\* The charge density cell i injected in the last step of the medium, from
\* the voltages the previous call on the medium read.
InjectedSince(i) ==
  Div(Mul(params.C[i], mop.last[i] - mop.V[i]),
      Mul(mop.before.dx, mop.before.dy))

\* The rho a scatter of InjectedSince into the medium before the call gives.
ScatteredSince ==
  [x \in 1..GridLen |->
     [y \in 1..GridLen |->
        mop.before.rho[x][y]
          + SumTo([i \in Cells |->
                     IF /\ mop.before.neuron_grid[1][i] = x
                        /\ mop.before.neuron_grid[2][i] = y
                       THEN InjectedSince(i) ELSE 0], N)]]

\* C27 as stated: a step of the medium with no population step since the
\* previous step of the medium injects no charge.
SecondStepInjectsNothing ==
  (/\ mop.name = "step" /\ mop.error = "none"
   /\ mop.prev = "step" /\ mop.stepsSince = 0) =>
    mop.scattered = mop.before.rho

\* C27, amended: from immerse() or step() of the medium on, Vprev holds the
\* voltages the population had during that call, whatever the population
\* does afterwards; a step of the medium injects, per cell,
\* C*(voltage read by the previous immerse or step - voltage now)/(dx*dy),
\* however many calls the population made in between, and nothing when the
\* population made no call, step or reset, in between; immerse() binds the
\* population, and replaces Vprev and the grid point of every cell.
SnapshotOfVoltages ==
  (mop.name \in {"immerse", "step"} /\ mop.error = "none") =>
    /\ med.Vprev = mop.V
    /\ mop.name = "step" =>
         /\ mop.before.Vprev = mop.last
         /\ mop.scattered = ScatteredSince
         /\ mop.callsSince = 0 => mop.scattered = mop.before.rho
    /\ mop.name = "immerse" =>
         /\ med.org = mop.arg
         /\ med.neuron_grid =
              <<[i \in Cells |-> ArgMinAbs(XY[mop.arg][1][i], med.X)],
                [i \in Cells |-> ArgMinAbs(XY[mop.arg][2][i], med.Y)]>>

\* Witness of C27: a step of the medium that injected charge after two
\* steps of the immersed population, which has since stepped again and left
\* Vprev behind.
SnapshotSurvivesSteps ==
  /\ mop.name = "step" /\ mop.error = "none"
  /\ med.org = "A"
  /\ mop.stepsSince >= 2
  /\ mop.scattered # mop.before.rho
  /\ Len(dts) > mop.steps
  /\ org.V # med.Vprev

----------------------------------------------------------------------------
(* Properties of the plasticity block.                                     *)

\* C22: in a step with plasticity enabled, a cell marked fired and scaling
\* rate 0, every entry ends as
\*   G[i,j] = max(0, G0[i,j] - Aminus*trace_minus[j]*[j fired]
\*                   + Aplus*trace_plus[j]*trace_y[i]*[i fired])
\* with the traces held before the step, and the entries with neither i
\* nor j fired are unchanged.
StdpWeightUpdate ==
  (op.name = "step" /\ params.do_stdp /\ AnyFired(pre)
   /\ params.Ascaling = 0) =>
    \A i \in Cells : \A j \in Cells :
      LET minus == IF pre.fired[j]
                     THEN Mul(params.Aminus, pre.traces[2][j]) ELSE 0
          plus == IF pre.fired[i]
                    THEN Mul(params.Aplus,
                             Mul(pre.traces[1][j], pre.traces[3][i]))
                    ELSE 0
          raw == pre.G[i][j] - minus + plus
      IN  /\ org.G[i][j] = IF raw < 0 THEN 0 ELSE raw
          /\ (~pre.fired[i] /\ ~pre.fired[j]) => org.G[i][j] = pre.G[i][j]

\* Witness of C22: a step without scaling in which one entry was lowered by
\* the presynaptic update and another raised by the postsynaptic update.
StdpBothUpdates ==
  /\ op.name = "step" /\ params.do_stdp /\ AnyFired(pre)
  /\ params.Ascaling = 0
  /\ \E i \in Cells, j \in Cells : org.G[i][j] < pre.G[i][j]
  /\ \E i \in Cells, j \in Cells : org.G[i][j] > pre.G[i][j]

====
